---- MODULE Spec2Model ----
(***************************************************************************)
(* NodeConductor: the atomic state transition executor                     *)
(* (nodeconductor.core.tasks.set_state / tracked_processing) and the       *)
(* instance action endpoints that drive it                                 *)
(* (nodeconductor.iaas.views.InstanceViewSet).                             *)
(*                                                                         *)
(* One instance row lives in the database.  HTTP requests and the task     *)
(* worker are processes; every database read and every database write of   *)
(* a handler is one step, so that the steps of different processes         *)
(* interleave the way concurrently served requests do.                     *)
(***************************************************************************)
EXTENDS Integers, Sequences, FiniteSets, TLC

\* ------------------------------------------------------------------ bounds
MaxRequests == 2  \* requests received in one behaviour
MaxDisk == 2      \* data volume sizes are 1..MaxDisk

\* Two request handlers serve requests at the same time; the task worker is
\* one more process.
Req == {1, 2}
Worker == 0
Procs == Req \cup {Worker}

\* ------------------------------------------------------- the state machine
States ==
    {"PROVISIONING", "OFFLINE", "STARTING", "ONLINE",
     "STOPPING", "RESIZING", "DELETING", "ERRED"}

TransientStates == {"PROVISIONING", "STARTING", "STOPPING", "RESIZING", "DELETING"}

\* Transitions requested through the API (marker transitions) and the ones
\* the worker reports back with.
MarkerTransitions ==
    {"schedule_starting", "schedule_stopping", "schedule_deletion", "schedule_resizing"}

WorkerTransitions ==
    {"begin_provisioning", "begin_starting", "begin_stopping", "begin_deleting",
     "begin_resizing", "set_online", "set_offline", "set_resized", "set_deleted", "set_erred"}

Transitions == MarkerTransitions \cup WorkerTransitions

\* Declared source set of a transition.
Source(t) ==
    CASE t = "schedule_starting" -> {"OFFLINE"}
      [] t = "schedule_stopping" -> {"ONLINE"}
      [] t = "schedule_deletion" -> {"OFFLINE", "ONLINE", "ERRED"}
      [] t = "schedule_resizing" -> {"OFFLINE"}
      [] t = "begin_provisioning" -> {"PROVISIONING"}
      [] t = "begin_starting"    -> {"STARTING"}
      [] t = "begin_stopping"    -> {"STOPPING"}
      [] t = "begin_deleting"    -> {"DELETING"}
      [] t = "begin_resizing"    -> {"RESIZING"}
      [] t = "set_online"        -> {"STARTING", "PROVISIONING"}
      [] t = "set_offline"       -> {"STOPPING"}
      [] t = "set_resized"       -> {"RESIZING"}
      [] t = "set_deleted"       -> {"DELETING"}
      [] t = "set_erred"         -> TransientStates
      [] OTHER                   -> {}

\* Declared target state of a transition.
Target(t) ==
    CASE t = "schedule_starting" -> "STARTING"
      [] t = "schedule_stopping" -> "STOPPING"
      [] t = "schedule_deletion" -> "DELETING"
      [] t = "schedule_resizing" -> "RESIZING"
      [] t = "begin_provisioning" -> "PROVISIONING"
      [] t = "begin_starting"    -> "STARTING"
      [] t = "begin_stopping"    -> "STOPPING"
      [] t = "begin_deleting"    -> "DELETING"
      [] t = "begin_resizing"    -> "RESIZING"
      [] t = "set_online"        -> "ONLINE"
      [] t = "set_offline"       -> "OFFLINE"
      [] t = "set_resized"       -> "OFFLINE"
      [] t = "set_deleted"       -> "DELETING"
      [] t = "set_erred"         -> "ERRED"
      [] OTHER                   -> "ERRED"

\* ------------------------------------------------------------- operations
\* The operations of InstanceViewSet._schedule_transition.
Operations == {"start", "stop", "destroy", "flavor change", "disk extension"}

ResizeOperations == {"flavor change", "disk extension"}

\* supported_operations with the marker transitions of start and stop swapped.
MarkerOfSwapped(op) ==
    CASE op = "start"          -> "schedule_stopping"
      [] op = "stop"           -> "schedule_starting"
      [] op = "destroy"        -> "schedule_deletion"
      [] op = "flavor change"  -> "schedule_resizing"
      [] op = "disk extension" -> "schedule_resizing"

\* supported_operations: the marker transition of an operation.
MarkerOf(op) ==
    CASE op = "start"          -> "schedule_starting"
      [] op = "stop"           -> "schedule_stopping"
      [] op = "destroy"        -> "schedule_deletion"
      [] op = "flavor change"  -> "schedule_resizing"
      [] op = "disk extension" -> "schedule_resizing"

\* supported_operations: the processing task of an operation.
TaskOf(op) ==
    CASE op = "start"          -> "schedule_starting"
      [] op = "stop"           -> "schedule_stopping"
      [] op = "destroy"        -> "schedule_deleting"
      [] op = "flavor change"  -> "update_flavor"
      [] op = "disk extension" -> "extend_disk"

Tasks ==
    {"schedule_provisioning", "schedule_starting", "schedule_stopping",
     "schedule_deleting", "update_flavor", "extend_disk"}

\* The transitions a task is decorated with by tracked_processing.
ProcessingState(task) ==
    CASE task = "schedule_provisioning" -> "begin_provisioning"
      [] task = "schedule_starting"     -> "begin_starting"
      [] task = "schedule_stopping"     -> "begin_stopping"
      [] task = "schedule_deleting"     -> "begin_deleting"
      [] task = "update_flavor"         -> "begin_resizing"
      [] task = "extend_disk"           -> "begin_resizing"

DesiredState(task) ==
    CASE task = "schedule_provisioning" -> "set_online"
      [] task = "schedule_starting"     -> "set_online"
      [] task = "schedule_stopping"     -> "set_offline"
      [] task = "schedule_deleting"     -> "set_deleted"
      [] task = "update_flavor"         -> "set_resized"
      [] task = "extend_disk"           -> "set_resized"

\* tracked_processing's default error_state.
ErrorState == "set_erred"

\* ---------------------------------------------------------------- flavors
Clouds == {"cloud1", "cloud2"}

InstanceCloud == "cloud1"

Flavors ==
    {[name |-> "small", ram |-> 1, cores |-> 1, cloud |-> "cloud1"],
     [name |-> "large", ram |-> 2, cores |-> 2, cloud |-> "cloud1"],
     [name |-> "foreign", ram |-> 2, cores |-> 2, cloud |-> "cloud2"]}

\* ------------------------------------------------------------------- rows
\* The instance row; NoRow stands for "no such row".
NoRow == [exists |-> FALSE, state |-> "none", ram |-> 0, cores |-> 0, disk |-> 0]

Row(s, r, c, d) == [exists |-> TRUE, state |-> s, ram |-> r, cores |-> c, disk |-> d]

Sizes(row) == <<row.ram, row.cores, row.disk>>

VARIABLES
    db,      \* the persisted instance row
    req,     \* the request served in each request slot
    ss,      \* the set_state call of each process
    wk,      \* the tracked_processing invocation of the worker
    queue,   \* the task queue
    issued,  \* the number of requests received so far
    acl,     \* the permission filter at work: structure, user, collection, result
    qs,      \* get_sum_of_quotas at work: memberships, position, sums
    view     \* another view at work: its tables, its request, its response

vars == <<db, req, ss, wk, queue, issued, acl, qs, view>>

\* The instance, its requests and the worker.
core == <<db, req, ss, wk, queue, issued>>

\* No statistics request is being served.
NoAcl == [pc |-> "none"]
NoQuota == [pc |-> "none"]
NoView == [pc |-> "none"]

IdleReq ==
    [pc |-> "idle", op |-> "none", auth |-> FALSE, obj |-> NoRow,
     resp |-> 0, enq |-> 0, mutated |-> FALSE]

IdleCall ==
    [pc |-> "idle", tr |-> "none", ent |-> NoRow, seen |-> "none",
     exc |-> "none", raised |-> "none", wrote |-> FALSE, stored |-> "none",
     audited |-> FALSE, raced |-> FALSE, loads |-> 0, saves |-> 0]

IdleWorker ==
    [pc |-> "idle", task |-> "none", failed |-> FALSE, calls |-> <<>>,
     first |-> "pending", ran |-> FALSE, propagated |-> "none"]

Init ==
    /\ \E s \in {"PROVISIONING", "OFFLINE", "ONLINE", "ERRED"} :
          /\ db = Row(s, 1, 1, 1)
          /\ queue = IF s = "PROVISIONING" THEN <<"schedule_provisioning">> ELSE <<>>
    /\ req = [r \in Req |-> IdleReq]
    /\ ss = [p \in Procs |-> IdleCall]
    /\ wk = IdleWorker
    /\ issued = 0
    /\ acl = NoAcl
    /\ qs = NoQuota
    /\ view = NoView

\* ------------------------------------------------------------- scheduling
\* Steps that read or write the database or take a task from the queue are
\* the points where processes interleave.  What a process does in its own
\* memory after such a step (logging, handing the task over, building the
\* response, returning) runs to its end before another process's next
\* database access: Settled says that no process is in the middle of that.
Settled ==
    /\ \A p \in Procs : ss[p].pc \notin {"committed", "returned"}
    /\ \A r \in Req : req[r].pc # "done"
    /\ wk.pc # "done"

\* ------------------------------------------------------------- set_state
\* A fresh call set_state(Instance, uuid, tr).
BeginCall(tr) == [IdleCall EXCEPT !.pc = "called", !.tr = tr]

\* set_state without its "except DatabaseError" clause.
ReraiseNoDatabaseClause(exc) ==
    IF exc \in {"DoesNotExist", "TransitionNotAllowed"}
    THEN "StateChangeError"
    ELSE exc

\* The except clauses of set_state: what the caller sees for an exception
\* raised inside the try block.
Reraise(exc) ==
    IF exc \in {"DoesNotExist", "DatabaseError", "TransitionNotAllowed"}
    THEN "StateChangeError"
    ELSE exc

\* set_state with the audit event written in every case.
FailCallAudited(call, exc) ==
    [call EXCEPT !.pc = "returned", !.exc = exc, !.raised = Reraise(exc),
                 !.audited = TRUE]

\* set_state with a handler that starts the call again instead of raising.
FailCallRetry(call, exc) ==
    [call EXCEPT !.pc = "called", !.exc = exc]

\* The call as it ends when exc was raised inside the try block.
FailCall(call, exc) ==
    [call EXCEPT !.pc = "returned", !.exc = exc, !.raised = Reraise(exc)]

\* transition() without the check of the source state.
TransitionAlwaysAllowed(state, tr) == TRUE

\* transition(): django_fsm lets the method run only from a declared source.
TransitionAllowed(state, tr) == state \in Source(tr)

\* The entity after transition() has run on it in memory.
ApplyTransition(entity, tr) == [entity EXCEPT !.state = Target(tr)]

\* entity.save(): every field of the in-memory entity is written to its row
\* (the row is inserted again when it is gone).
SavedRow(row, entity) == [entity EXCEPT !.exists = TRUE]

\* The save outside any transaction: the write stays when the commit fails.
NotRolledBack(row, entity) == SavedRow(row, entity)

\* The row after the atomic block was left by an exception: rolled back.
RolledBack(row, entity) == row

\* Lines 77-85: load the entity and run the transition on it.
SetStateLoad(p) ==
    /\ Settled
    /\ ss[p].pc = "called"
    /\ ss' = [ss EXCEPT ![p] =
                IF ~db.exists
                THEN FailCall([ss[p] EXCEPT !.seen = "missing",
                                            !.loads = @ + 1], "DoesNotExist")
                ELSE IF ~TransitionAllowed(db.state, ss[p].tr)
                THEN FailCall([ss[p] EXCEPT !.seen = db.state,
                                            !.loads = @ + 1], "TransitionNotAllowed")
                ELSE [ss[p] EXCEPT !.pc = "loaded", !.seen = db.state,
                                   !.loads = @ + 1,
                                   !.ent = ApplyTransition(db, ss[p].tr)]]
    /\ UNCHANGED <<db, req, wk, queue, issued, acl, qs, view>>

\* Line 87 and the exit of the atomic block: the save commits.  A call that
\* loaded its entity for the same transition before this commit now holds
\* an outdated copy (raced).
SetStateCommit(p) ==
    /\ Settled
    /\ ss[p].pc = "loaded"
    /\ db' = SavedRow(db, ss[p].ent)
    /\ ss' = [q \in Procs |->
                IF q = p
                THEN [ss[p] EXCEPT !.pc = "committed", !.wrote = (db' # db),
                                   !.stored = db'.state, !.saves = @ + 1]
                ELSE IF ss[q].pc = "loaded" /\ ss[q].tr = ss[p].tr
                THEN [ss[q] EXCEPT !.raced = TRUE]
                ELSE ss[q]]
    /\ UNCHANGED <<req, wk, queue, issued, acl, qs, view>>

\* Line 87 and the exit of the atomic block: the database refuses the write
\* (DatabaseError), the transaction is rolled back.
SetStateDatabaseError(p) ==
    /\ Settled
    /\ ss[p].pc = "loaded"
    /\ db' = RolledBack(db, ss[p].ent)
    /\ ss' = [ss EXCEPT ![p] =
                FailCall([@ EXCEPT !.wrote = (db' # db), !.saves = @ + 1],
                         "DatabaseError")]
    /\ UNCHANGED <<req, wk, queue, issued, acl, qs, view>>

\* Lines 109-116: the call logs its success and writes the audit event.
SetStateAudit(p) ==
    /\ ss[p].pc = "committed"
    /\ ss' = [ss EXCEPT ![p] = [@ EXCEPT !.pc = "returned", !.audited = TRUE]]
    /\ UNCHANGED <<db, req, wk, queue, issued, acl, qs, view>>

\* The audit event written inside the atomic block: a failure of the write
\* leaves the block by an exception and the transition is rolled back.
AuditInsideAtomic(row, call) == [row EXCEPT !.state = call.seen]

\* The row after lines 109-116: they run after the atomic block was left, the
\* commit is behind them and nothing they do reaches the row.
AfterAudit(row, call) == row

\* Lines 113-116, the audit sink failing: the event is handed to the logging
\* handlers, which keep a failure of the write to themselves; the record is
\* lost and the call returns.
SetStateAuditFailure(p) ==
    /\ ss[p].pc = "committed"
    /\ db' = AfterAudit(db, ss[p])
    /\ ss' = [ss EXCEPT ![p] = [@ EXCEPT !.pc = "returned"]]
    /\ UNCHANGED <<req, wk, queue, issued, acl, qs, view>>

\* --------------------------------------------------------------- requests
\* Handler r takes the next request: the free handler with the lowest number.
Free(r) ==
    /\ issued < MaxRequests
    /\ req[r].pc = "idle"
    /\ \A q \in Req : q < r => req[q].pc # "idle"

\* The response a finished request is answered with.
Answer(cur, code) == [cur EXCEPT !.pc = "done", !.resp = code]

\* _schedule_transition up to the call of set_state: get_object, the
\* permission check, the choice of the marker transition.
ScheduleTransition(r, cur) ==
    IF ~db.exists
    THEN /\ req' = [req EXCEPT ![r] = Answer(cur, 404)]
         /\ UNCHANGED ss
    ELSE IF ~cur.auth
    THEN /\ req' = [req EXCEPT ![r] = Answer(cur, 403)]
         /\ UNCHANGED ss
    ELSE /\ req' = [req EXCEPT ![r] = [cur EXCEPT !.pc = "set_state"]]
         /\ ss' = [ss EXCEPT ![r] = BeginCall(MarkerOf(cur.op))]

\* The handlers start, stop and destroy.
Action(r, op, auth) ==
    /\ Settled
    /\ Free(r)
    /\ op \in {"start", "stop", "destroy"}
    /\ ScheduleTransition(r, [IdleReq EXCEPT !.op = op, !.auth = auth])
    /\ issued' = issued + 1
    /\ UNCHANGED <<db, wk, queue, acl, qs, view>>

\* What InstanceResizeSerializer accepts: a flavor or a disk size, never
\* both and never neither.
None == "None"

ResizeData ==
    {[flavor |-> f.name, disk_size |-> 0] : f \in Flavors}
      \cup {[flavor |-> None, disk_size |-> n] : n \in 1..MaxDisk}

FlavorNamed(name) == CHOOSE f \in Flavors : f.name = name

\* change_flavor up to its instance.save().
ChangeFlavor(cur, flavor) ==
    IF flavor.cloud # InstanceCloud
    THEN Answer([cur EXCEPT !.op = "flavor change"], 400)
    ELSE [cur EXCEPT !.op = "flavor change", !.pc = "saving",
                     !.obj = [db EXCEPT !.ram = flavor.ram, !.cores = flavor.cores]]

\* resize_disk refusing only a smaller size.
ResizeDiskAllowsEqual(cur, new_size) ==
    IF new_size < db.disk
    THEN Answer([cur EXCEPT !.op = "disk extension"], 400)
    ELSE [cur EXCEPT !.op = "disk extension", !.pc = "saving",
                     !.obj = [db EXCEPT !.disk = new_size]]

\* resize_disk up to its instance.save().
ResizeDisk(cur, new_size) ==
    IF new_size <= db.disk
    THEN Answer([cur EXCEPT !.op = "disk extension"], 400)
    ELSE [cur EXCEPT !.op = "disk extension", !.pc = "saving",
                     !.obj = [db EXCEPT !.disk = new_size]]

\* The handler resize; valid says whether the serializer accepts the data.
Resize(r, valid, data, auth) ==
    /\ Settled
    /\ Free(r)
    /\ LET cur == [IdleReq EXCEPT !.op = "resize", !.auth = auth] IN
       req' = [req EXCEPT ![r] =
                IF ~db.exists THEN Answer(cur, 404)
                ELSE IF db.state # "OFFLINE" THEN Answer(cur, 409)
                ELSE IF ~valid THEN Answer(cur, 400)
                ELSE IF data.flavor # None
                THEN ChangeFlavor(cur, FlavorNamed(data.flavor))
                ELSE ResizeDisk(cur, data.disk_size)]
    /\ issued' = issued + 1
    /\ UNCHANGED <<db, ss, wk, queue, acl, qs, view>>

\* instance.save() of change_flavor and resize_disk.
ResizeSave(r) ==
    /\ Settled
    /\ req[r].pc = "saving"
    /\ db' = SavedRow(db, req[r].obj)
    /\ req' = [req EXCEPT ![r] =
                 [@ EXCEPT !.pc = "sched", !.obj = NoRow,
                           !.mutated = (Sizes(db') # Sizes(db))]]
    /\ UNCHANGED <<ss, wk, queue, issued, acl, qs, view>>

\* instance.save() fails with a DatabaseError, which nothing catches.
ResizeSaveError(r) ==
    /\ Settled
    /\ req[r].pc = "saving"
    /\ req' = [req EXCEPT ![r] = Answer(@, 500)]
    /\ UNCHANGED <<db, ss, wk, queue, issued, acl, qs, view>>

\* change_flavor and resize_disk go on to _schedule_transition.
ResizeSchedule(r) ==
    /\ Settled
    /\ req[r].pc = "sched"
    /\ ScheduleTransition(r, req[r])
    /\ UNCHANGED <<db, wk, queue, issued, acl, qs, view>>

\* processing_task.delay() moved out of the try block: it runs in every case.
EnqueuedAlways(q, raised, op) == Append(q, TaskOf(op))

\* Lines 277-283: the task is handed to the queue when set_state returned,
\* and is not when it raised.
Enqueued(q, raised, op) ==
    IF raised = "none" THEN Append(q, TaskOf(op)) ELSE q

\* Lines 277-286: the status the request is answered with.
Status(raised) ==
    IF raised = "none" THEN 202
    ELSE IF raised = "StateChangeError" THEN 409
    ELSE 500

\* _schedule_transition after set_state has returned or raised.
Finish(r) ==
    /\ req[r].pc = "set_state"
    /\ ss[r].pc = "returned"
    /\ queue' = Enqueued(queue, ss[r].raised, req[r].op)
    /\ req' = [req EXCEPT ![r] =
                 [Answer(req[r], Status(ss[r].raised))
                    EXCEPT !.enq = Len(queue') - Len(queue)]]
    /\ UNCHANGED <<db, ss, wk, issued, acl, qs, view>>

\* The response has been sent; the handler is free again.
Return(r) ==
    /\ req[r].pc = "done"
    /\ req' = [req EXCEPT ![r] = IdleReq]
    /\ ss' = [ss EXCEPT ![r] = IdleCall]
    /\ UNCHANGED <<db, wk, queue, issued, acl, qs, view>>

\* ----------------------------------------------------- tracked_processing
\* The worker takes a task: wrapped() calls set_state(processing_state).
WorkerTake ==
    /\ Settled
    /\ wk.pc = "idle"
    /\ queue # <<>>
    /\ wk' = [IdleWorker EXCEPT !.pc = "marking", !.task = Head(queue),
                                !.calls = <<ProcessingState(Head(queue))>>]
    /\ queue' = Tail(queue)
    /\ ss' = [ss EXCEPT ![Worker] = BeginCall(ProcessingState(Head(queue)))]
    /\ UNCHANGED <<db, req, issued, acl, qs, view>>

\* The wrapper without its "except StateChangeError: pass".
NotAbsorbed(raised) == raised

\* Lines 147-149: what leaves wrapped() of an exception raised by one of its
\* set_state calls.
Absorbed(raised) == IF raised = "StateChangeError" THEN "none" ELSE raised

\* The processing function called whatever set_state(processing_state) did.
RunsProcessingAlways(raised) == TRUE

\* Lines 128-136: the call of processing_fn follows set_state(processing_state)
\* inside the try block, so it is reached only when that call returned.
RunsProcessing(raised) == raised = "none"

\* The wrapper calling set_state(desired_state) whatever processing_fn did.
FinalTransitionAlwaysDesired(task, ok) == DesiredState(task)

\* Lines 135-146: the transition attempted after processing_fn: the desired
\* state when it returned, the error state when it raised.
FinalTransition(task, ok) == IF ok THEN DesiredState(task) ELSE ErrorState

\* set_state(processing_state) has returned or raised.
WorkerMarked ==
    /\ wk.pc = "marking"
    /\ ss[Worker].pc = "returned"
    /\ IF RunsProcessing(ss[Worker].raised)
       THEN /\ wk' = [wk EXCEPT !.pc = "processing", !.first = ss[Worker].raised]
            /\ ss' = [ss EXCEPT ![Worker] = IdleCall]
       ELSE /\ wk' = [wk EXCEPT !.pc = "done", !.first = ss[Worker].raised,
                                !.propagated = Absorbed(ss[Worker].raised)]
            /\ ss' = ss
    /\ UNCHANGED <<db, req, queue, issued, acl, qs, view>>

\* What the processing function of a task leaves of the row: the deletion
\* task, when it succeeds, has removed the instance.
Processed(row, task, ok) ==
    IF ok /\ task = "schedule_deleting" THEN NoRow ELSE row

\* processing_fn runs and returns (ok) or raises.  Then
\* set_state(desired_state) or set_state(error_state) is called.
WorkerProcess(ok) ==
    /\ Settled
    /\ wk.pc = "processing"
    /\ db' = Processed(db, wk.task, ok)
    /\ wk' = [wk EXCEPT !.pc = "finishing", !.failed = ~ok, !.ran = TRUE,
                        !.calls = Append(@, FinalTransition(wk.task, ok))]
    /\ ss' = [ss EXCEPT ![Worker] = BeginCall(FinalTransition(wk.task, ok))]
    /\ UNCHANGED <<req, queue, issued, acl, qs, view>>

\* The second set_state has returned or raised; a StateChangeError is passed over.
WorkerFinish ==
    /\ wk.pc = "finishing"
    /\ ss[Worker].pc = "returned"
    /\ wk' = [wk EXCEPT !.pc = "done",
                        !.propagated = Absorbed(ss[Worker].raised)]
    /\ UNCHANGED <<db, req, ss, queue, issued, acl, qs, view>>

\* wrapped() has returned; the worker is free again.
WorkerReturn ==
    /\ wk.pc = "done"
    /\ wk' = IdleWorker
    /\ ss' = [ss EXCEPT ![Worker] = IdleCall]
    /\ UNCHANGED <<db, req, queue, issued, acl, qs, view>>

\* ----------------------------------------------------------- specification
Next ==
    \/ \E p \in Procs : SetStateLoad(p)
    \/ \E p \in Procs : SetStateCommit(p)
    \/ \E p \in Procs : SetStateDatabaseError(p)
    \/ \E p \in Procs : SetStateAudit(p)
    \/ \E p \in Procs : SetStateAuditFailure(p)
    \/ \E r \in Req, op \in {"start", "stop", "destroy"}, auth \in BOOLEAN :
          Action(r, op, auth)
    \/ \E r \in Req, valid \in BOOLEAN, data \in ResizeData, auth \in BOOLEAN :
          Resize(r, valid, data, auth)
    \/ \E r \in Req : ResizeSave(r)
    \/ \E r \in Req : ResizeSaveError(r)
    \/ \E r \in Req : ResizeSchedule(r)
    \/ \E r \in Req : Finish(r)
    \/ \E r \in Req : Return(r)
    \/ WorkerTake
    \/ WorkerMarked
    \/ \E ok \in BOOLEAN : WorkerProcess(ok)
    \/ WorkerFinish
    \/ WorkerReturn

Spec == Init /\ [][Next]_vars

\* The steps the running system takes on its own once they are possible: a
\* request handler runs to its response, the worker takes the queued tasks
\* and runs tracked_processing to its end.  New requests and the faults of
\* the environment (a refused write, a lost audit record) are not among them.
Progress ==
    \/ \E p \in Procs : SetStateLoad(p) \/ SetStateCommit(p) \/ SetStateAudit(p)
    \/ \E r \in Req : ResizeSave(r) \/ ResizeSchedule(r) \/ Finish(r) \/ Return(r)
    \/ WorkerTake
    \/ WorkerMarked
    \/ \E ok \in BOOLEAN : WorkerProcess(ok)
    \/ WorkerFinish
    \/ WorkerReturn

\* The system with a fair worker and fair request handlers.
FairSpec == Init /\ [][Next]_vars /\ WF_vars(Progress)

\* ---------------------------------------------------- the permission filter
\* The structure the statistics tests build: customers, project groups and
\* projects, and up to MaxInstances instances.
NumCustomers == 2
NumGroups == 2
NumProjects == 2
MaxInstances == 2

EntityTypes == {"Customer", "ProjectGroup", "Project", "Instance"}

\* The identifiers of the n entities of one type.
Ids(type, n) == {[type |-> type, id |-> k] : k \in 1..n}

\* Model.objects.all()
All(type) ==
    CASE type = "Customer"     -> Ids(type, NumCustomers)
      [] type = "ProjectGroup" -> Ids(type, NumGroups)
      [] type = "Project"      -> Ids(type, NumProjects)
      [] type = "Instance"     -> Ids(type, MaxInstances)

\* The structures: each project group and each project belongs to a
\* customer, a project is in any number of groups of its customer, each
\* instance belongs (through its cloud-project membership) to a project.
Structures ==
    {w \in [customer_of_group   : [All("ProjectGroup") -> All("Customer")],
            customer_of_project : [All("Project") -> All("Customer")],
            project_groups      : [All("Project") -> SUBSET All("ProjectGroup")],
            project_of_instance : [All("Instance") -> All("Project")]] :
        \A p \in All("Project") : \A g \in w.project_groups[p] :
            w.customer_of_group[g] = w.customer_of_project[p]}

ProjectRoles == {"ADMINISTRATOR", "MANAGER"}

\* The users: a staff user, or a user with any roles: owner of customers,
\* manager of project groups, administrator or manager of projects.
Users ==
    {[is_staff |-> TRUE, owner |-> {}, manager |-> {},
      project_role |-> [p \in All("Project") |-> "none"]]}
    \cup
    [is_staff : {FALSE}, owner : SUBSET All("Customer"),
     manager : SUBSET All("ProjectGroup"),
     project_role : [All("Project") -> ProjectRoles \cup {"none"}]]

\* The customer an entity belongs to.
CustomerOf(w, e) ==
    CASE e.type = "Customer"     -> e
      [] e.type = "ProjectGroup" -> w.customer_of_group[e]
      [] e.type = "Project"      -> w.customer_of_project[e]
      [] e.type = "Instance"     -> w.customer_of_project[w.project_of_instance[e]]

\* The project groups an entity is in: a group itself, the groups of a
\* project, the groups of an instance's project.
GroupsOf(w, e) ==
    CASE e.type = "Customer"     -> {}
      [] e.type = "ProjectGroup" -> {e}
      [] e.type = "Project"      -> w.project_groups[e]
      [] e.type = "Instance"     -> w.project_groups[w.project_of_instance[e]]

\* The projects an entity is in: a project itself, the project of an instance.
ProjectsOf(w, e) ==
    CASE e.type = "Customer"     -> {}
      [] e.type = "ProjectGroup" -> {}
      [] e.type = "Project"      -> {e}
      [] e.type = "Instance"     -> {w.project_of_instance[e]}

\* The entities of one type under a scope (a customer, a project group or a
\* project): the scope itself and what lies below it in the hierarchy.
Under(w, scope, type) ==
    {e \in All(type) :
        CASE scope.type = "Customer"     -> CustomerOf(w, e) = scope
          [] scope.type = "ProjectGroup" -> scope \in GroupsOf(w, e)
          [] scope.type = "Project"      -> scope \in ProjectsOf(w, e)}

\* The role scopes with the manager role on project groups left out.
RoleScopesWithoutGroups(u) ==
    u.owner \cup {p \in All("Project") : u.project_role[p] \in ProjectRoles}

\* The scopes where the user holds a role.
RoleScopes(u) ==
    u.owner \cup u.manager
    \cup {p \in All("Project") : u.project_role[p] \in ProjectRoles}

\* The customers a user with a role anywhere below them is shown: the
\* customer statistics of a group manager and of a project administrator
\* list the customer of their group and project.
ConnectedCustomers(w, u) == {CustomerOf(w, s) : s \in RoleScopes(u)}

\* visible_ids(user, entity_type): everything for a staff user, else what
\* lies under the scopes of the user's roles.
VisibleIds(w, u, type) ==
    IF u.is_staff
    THEN All(type)
    ELSE UNION {Under(w, s, type) : s \in RoleScopes(u)}
         \cup (IF type = "Customer" THEN ConnectedCustomers(w, u) ELSE {})

\* A filter that gives up on a queryset that is already restricted.
FilterOnlyWholeTable(w, u, type, queryset) ==
    IF queryset = All(type) THEN queryset \cap VisibleIds(w, u, type) ELSE {}

\* filter_queryset_for_user(queryset, user): the queryset restricted to the
\* identifiers the user may see.
FilterQuerysetForUser(w, u, type, queryset) ==
    queryset \cap VisibleIds(w, u, type)

\* The querysets the statistics views filter: Model.objects.all(), or the
\* objects of one customer (Model.objects.filter(customer=customer)).
Querysets(w, type) ==
    {All(type)} \cup {Under(w, c, type) : c \in All("Customer")}

\* The statistics view answering 404 when the user may see nothing.
StatusNotFoundWhenEmpty(rows) == IF rows = {} THEN 404 ELSE 200

\* CustomerStatsView.get ends in Response(customer_statistics, HTTP_200_OK).
StatusOfStatistics(rows) == 200

\* The customer statistics counted over all objects, not filtered for the user.
CustomerStatisticsUnfiltered(w, u) ==
    {[name |-> c,
      projects       |-> Cardinality(Under(w, c, "Project")),
      project_groups |-> Cardinality(Under(w, c, "ProjectGroup")),
      instances      |-> Cardinality(Under(w, c, "Instance"))] :
        c \in FilterQuerysetForUser(w, u, "Customer", All("Customer"))}

\* The customer statistics listing only the customers the user owns.
CustomerStatisticsOfOwners(w, u) ==
    {[name |-> c,
      projects       |-> Cardinality(
          FilterQuerysetForUser(w, u, "Project", Under(w, c, "Project"))),
      project_groups |-> Cardinality(
          FilterQuerysetForUser(w, u, "ProjectGroup", Under(w, c, "ProjectGroup"))),
      instances      |-> Cardinality(
          FilterQuerysetForUser(w, u, "Instance", Under(w, c, "Instance")))] :
        c \in u.owner}

\* CustomerStatsView.get: one entry per customer the user may see, counting
\* the projects, project groups and instances of the customer the user may see.
CustomerStatistics(w, u) ==
    {[name |-> c,
      projects       |-> Cardinality(
          FilterQuerysetForUser(w, u, "Project", Under(w, c, "Project"))),
      project_groups |-> Cardinality(
          FilterQuerysetForUser(w, u, "ProjectGroup", Under(w, c, "ProjectGroup"))),
      instances      |-> Cardinality(
          FilterQuerysetForUser(w, u, "Instance", Under(w, c, "Instance")))] :
        c \in FilterQuerysetForUser(w, u, "Customer", All("Customer"))}

\* A statistics request of user u over structure w, not yet served.
IdleAcl(w, u) ==
    [pc |-> "idle", w |-> w, u |-> u, type |-> "none", queryset |-> {},
     result |-> {}, status |-> 0, data |-> {}]

\* The instance machinery at rest while statistics are served.
CoreAtRest ==
    /\ db = Row("OFFLINE", 1, 1, 1)
    /\ queue = <<>>
    /\ req = [r \in Req |-> IdleReq]
    /\ ss = [p \in Procs |-> IdleCall]
    /\ wk = IdleWorker
    /\ issued = 0

FilterInit ==
    /\ CoreAtRest
    /\ \E w \in Structures, u \in Users : acl = IdleAcl(w, u)
    /\ qs = NoQuota
    /\ view = NoView

\* A view filters a queryset of one type for the user of the request.
FilterQueryset(type, queryset) ==
    /\ acl.pc = "idle"
    /\ queryset \in Querysets(acl.w, type)
    /\ acl' = [acl EXCEPT !.pc = "filtered", !.type = type,
                          !.queryset = queryset,
                          !.result = FilterQuerysetForUser(acl.w, acl.u, type, queryset)]
    /\ UNCHANGED <<core, qs, view>>

\* CustomerStatsView.get
CustomerStatsGet ==
    /\ acl.pc = "idle"
    /\ acl' = [acl EXCEPT !.pc = "answered",
                          !.data = CustomerStatistics(acl.w, acl.u),
                          !.status = StatusOfStatistics(CustomerStatistics(acl.w, acl.u))]
    /\ UNCHANGED <<core, qs, view>>

FilterNext ==
    \/ \E type \in EntityTypes : \E queryset \in SUBSET All(type) :
          FilterQueryset(type, queryset)
    \/ CustomerStatsGet

FilterSpec == FilterInit /\ [][FilterNext]_vars

\* ------------------------------------------------------- get_sum_of_quotas
MaxMemberships == 2   \* memberships handed to get_sum_of_quotas
MaxQuota == 1         \* quota rows are QuotaRow(0) .. QuotaRow(MaxQuota)

\* fields = ['vcpu', 'ram', 'storage', 'max_instances', 'backup_storage']
Fields == <<"vcpu", "ram", "storage", "max_instances", "backup_storage">>

FieldSet == {Fields[k] : k \in 1..Len(Fields)}

\* The position of a field in the list.
IndexOf(field) == CHOOSE k \in 1..Len(Fields) : Fields[k] = field

\* The rows of ResourceQuota and ResourceQuotaUsage: row n holds a different
\* amount in each field.
QuotaRow(n) == [f \in FieldSet |-> n + IndexOf(f) - 1]

QuotaRows == {QuotaRow(n) : n \in 0..MaxQuota}

\* A cloud-project membership with its one-to-one relations: each holds the
\* row, or nothing when there is none (reading it raises DoesNotExist).
Memberships ==
    [resource_quota       : {{}} \cup {{row} : row \in QuotaRows},
     resource_quota_usage : {{}} \cup {{row} : row \in QuotaRows}]

\* The key of a field in the result: field, or field + '_usage'.
Key(field, suffix) == <<field, suffix>>

\* sum_of_quotas[key] as read from the defaultdict(lambda: 0).
Lookup(sums, key) == IF key \in DOMAIN sums THEN sums[key] ELSE 0

\* The dictionary after sum_of_quotas[key] was read: a missing key is
\* entered with 0.
Touched(sums, key) ==
    [k \in DOMAIN sums \cup {key} |-> Lookup(sums, k)]

\* The dictionary with sum_of_quotas[key] = value.
Stored(sums, key, value) ==
    [k \in DOMAIN sums \cup {key} |-> IF k = key THEN value ELSE sums[k]]

\* The loop over the fields leaving after its first pass.
AddFieldsFirstOnly(sums, row, suffix, n) ==
    Stored(sums, Key(Fields[n], suffix),
           Lookup(sums, Key(Fields[n], suffix)) + row[Fields[n]])

\* for field in fields: sum_of_quotas[field + suffix] += getattr(row, field),
\* from the n-th field on.
RECURSIVE AddFields(_, _, _, _)
AddFields(sums, row, suffix, n) ==
    IF n > Len(Fields)
    THEN sums
    ELSE AddFields(Stored(sums, Key(Fields[n], suffix),
                          Lookup(sums, Key(Fields[n], suffix)) + row[Fields[n]]),
                   row, suffix, n + 1)

\* One try block of the loop.  The left side of the first += is read before
\* the relation: when the row is missing, DoesNotExist leaves the block with
\* the first key entered and nothing added.
AddRelation(sums, relation, suffix) ==
    IF relation = {}
    THEN Touched(sums, Key(Fields[1], suffix))
    ELSE AddFields(sums, CHOOSE row \in relation : TRUE, suffix, 1)

\* The loop body with one try block around both sums: a membership without
\* a quota row loses its usage too.
AddMembershipOneTry(sums, membership) ==
    IF membership.resource_quota = {}
    THEN Touched(sums, Key(Fields[1], ""))
    ELSE AddRelation(AddRelation(sums, membership.resource_quota, ""),
                     membership.resource_quota_usage, "_usage")

\* The loop body: the quota fields, then the usage fields.
AddMembership(sums, membership) ==
    AddRelation(AddRelation(sums, membership.resource_quota, ""),
                membership.resource_quota_usage, "_usage")

\* sum_of_quotas = defaultdict(lambda: 0)
EmptySums == [k \in {} |-> 0]

\* get_sum_of_quotas(memberships) is called.
BeginQuota(memberships) ==
    [pc |-> "loop", memberships |-> memberships, i |-> 0, sums |-> EmptySums,
     status |-> 0]

QuotaInit ==
    /\ CoreAtRest
    /\ acl = NoAcl
    /\ view = NoView
    /\ \E n \in 0..MaxMemberships : \E memberships \in [1..n -> Memberships] :
          qs = BeginQuota(memberships)

\* One pass of "for membership in memberships".
QuotaLoop ==
    /\ qs.pc = "loop"
    /\ qs.i < Len(qs.memberships)
    /\ qs' = [qs EXCEPT !.i = @ + 1,
                        !.sums = AddMembership(qs.sums, qs.memberships[qs.i + 1])]
    /\ UNCHANGED <<core, acl, view>>

\* return sum_of_quotas; QuotaStatsView.get answers with it.
QuotaReturn ==
    /\ qs.pc = "loop"
    /\ qs.i = Len(qs.memberships)
    /\ qs' = [qs EXCEPT !.pc = "returned", !.status = 200]
    /\ UNCHANGED <<core, acl, view>>

QuotaNext == QuotaLoop \/ QuotaReturn

QuotaSpec == QuotaInit /\ [][QuotaNext]_vars

\* ------------------------------------------------------ resource statistics
MaxClouds == 3

CloudIds == 1..MaxClouds

\* The auth_url values of cloud rows, and a value no cloud has.
AuthUrls == {"http://example.com/", "http://example.org/"}
RandomUrl == "some_random_url"

\* No row with this id; no such key in QUERY_PARAMS.
Absent == "absent"

\* The Cloud table: the auth_url of each row that exists.
CloudTables == [CloudIds -> AuthUrls \cup {Absent}]

QueryParams == AuthUrls \cup {RandomUrl, Absent}

\* Cloud.objects.filter(auth_url=auth_url)
CloudsWithAuthUrl(table, auth_url) ==
    {c \in CloudIds : table[c] # Absent /\ table[c] = auth_url}

\* clouds[0], in the order of the primary key.
FirstCloud(clouds) == CHOOSE c \in clouds : \A d \in clouds : c <= d

\* A response and the calls of get_resource_stats made for it.
Response(code, calls) == [status |-> code, queried |-> calls]

\* ResourceStatsView.get validating its parameters before the requester.
ResourceStatsParamsFirst(table, is_staff, auth_url) ==
    IF auth_url = Absent THEN Response(400, <<>>)
    ELSE IF ~is_staff THEN Response(403, <<>>)
    ELSE IF CloudsWithAuthUrl(table, auth_url) = {} THEN Response(400, <<>>)
    ELSE Response(200, <<[cloud |-> FirstCloud(CloudsWithAuthUrl(table, auth_url)),
                          auth_url |-> auth_url]>>)

\* ResourceStatsView.get: _check_user, the parameter, the lookup of the
\* cloud, and then the call of its backend.
ResourceStats(table, is_staff, auth_url) ==
    IF ~is_staff THEN Response(403, <<>>)
    ELSE IF auth_url = Absent THEN Response(400, <<>>)
    ELSE IF CloudsWithAuthUrl(table, auth_url) = {} THEN Response(400, <<>>)
    ELSE Response(200, <<[cloud |-> FirstCloud(CloudsWithAuthUrl(table, auth_url)),
                          auth_url |-> auth_url]>>)

IdleResource(table) ==
    [pc |-> "idle", clouds |-> table, is_staff |-> FALSE, auth_url |-> Absent,
     response |-> Response(0, <<>>)]

ResourceInit ==
    /\ CoreAtRest
    /\ acl = NoAcl
    /\ qs = NoQuota
    /\ \E table \in CloudTables : view = IdleResource(table)

\* GET of the resource statistics by a requester, with or without auth_url.
ResourceStatsGet(is_staff, auth_url) ==
    /\ view.pc = "idle"
    /\ view' = [view EXCEPT !.pc = "answered", !.is_staff = is_staff,
                            !.auth_url = auth_url,
                            !.response = ResourceStats(view.clouds, is_staff, auth_url)]
    /\ UNCHANGED <<core, acl, qs>>

\* The response is handed to the client.
ResourceStatsReturn ==
    /\ view.pc = "answered"
    /\ view' = IdleResource(view.clouds)
    /\ UNCHANGED <<core, acl, qs>>

ResourceNext ==
    \/ \E is_staff \in BOOLEAN, auth_url \in QueryParams :
          ResourceStatsGet(is_staff, auth_url)
    \/ ResourceStatsReturn

ResourceSpec == ResourceInit /\ [][ResourceNext]_vars

\* ------------------------------------------------------ project permissions
\* Two requesters: a staff user without roles, and a user who may own
\* customers, manage project groups and be given project roles.
GrantUsers == {"staff", "user"}

\* Project k belongs to customer k and is or is not in project group k.
GrantStructures ==
    {w \in [customer_of_project : [All("Project") -> All("Customer")],
            project_groups      : [All("Project") -> SUBSET All("ProjectGroup")]] :
        \A p \in All("Project") :
            /\ w.customer_of_project[p].id = p.id
            /\ \A g \in w.project_groups[p] : g.id = p.id}

\* The rows of User.groups.through for the groups of project roles.
Assignments == [user : GrantUsers, project : All("Project"), role : ProjectRoles]

\* project.has_user(user, role)
HasUser(permissions, project, user, role) ==
    [user |-> user, project |-> project, role |-> role] \in permissions

\* can_save letting the administrators of the project save as well.
CanSaveAdministratorToo(v, user, project) ==
    IF user = "staff" THEN TRUE
    ELSE IF \E role \in ProjectRoles : HasUser(v.permissions, project, user, role)
    THEN TRUE
    ELSE IF v.w.customer_of_project[project] \in v.owner THEN TRUE
    ELSE \E project_group \in v.w.project_groups[project] : project_group \in v.manager

\* can_save: staff, a manager of the project, an owner of its customer, a
\* manager of one of its project groups.
CanSave(v, user, project) ==
    IF user = "staff" THEN TRUE
    ELSE IF HasUser(v.permissions, project, user, "MANAGER") THEN TRUE
    ELSE IF v.w.customer_of_project[project] \in v.owner THEN TRUE
    ELSE \E project_group \in v.w.project_groups[project] : project_group \in v.manager

\* project.add_user(user, role): the assignment and whether it was created.
AddUser(permissions, assignment) ==
    [permissions |-> permissions \cup {assignment},
     created     |-> assignment \notin permissions]

\* create: the serializer, pre_save, add_user and the response.
Create(v, user, valid, assignment) ==
    LET asked == [v EXCEPT !.pc = "answered", !.user = user, !.asked = {assignment}]
        added == AddUser(v.permissions, assignment)
    IN  IF ~valid THEN [asked EXCEPT !.status = 400]
        ELSE IF ~CanSave(v, user, assignment.project) THEN [asked EXCEPT !.status = 403]
        ELSE [asked EXCEPT !.permissions = added.permissions,
                           !.status = IF added.created THEN 201 ELSE 304]

IdleGrant(v) ==
    [v EXCEPT !.pc = "idle", !.before = {}, !.user = "none", !.asked = {},
              !.status = 0]

GrantInit ==
    /\ CoreAtRest
    /\ acl = NoAcl
    /\ qs = NoQuota
    /\ \E w \in GrantStructures, owner \in SUBSET All("Customer"),
          manager \in SUBSET All("ProjectGroup") :
          view = [pc |-> "idle", w |-> w, owner |-> owner, manager |-> manager,
                  permissions |-> {}, before |-> {}, user |-> "none",
                  asked |-> {}, status |-> 0]

\* POST of a project permission by one of the users.
GrantCreate(user, valid, assignment) ==
    /\ view.pc = "idle"
    /\ view' = Create([view EXCEPT !.before = view.permissions], user, valid, assignment)
    /\ UNCHANGED <<core, acl, qs>>

\* The response is handed to the client.
GrantReturn ==
    /\ view.pc = "answered"
    /\ view' = IdleGrant(view)
    /\ UNCHANGED <<core, acl, qs>>

GrantNext ==
    \/ \E user \in GrantUsers, valid \in BOOLEAN, assignment \in Assignments :
          GrantCreate(user, valid, assignment)
    \/ GrantReturn

GrantSpec == GrantInit /\ [][GrantNext]_vars

\* --------------------------------------------------------- usage statistics
\* aggregate_models: the entity type of each value of 'aggregate'.
AggregateModels ==
    [customer |-> "Customer", project_group |-> "ProjectGroup", project |-> "Project"]

\* The values of the parameter 'aggregate' in a request: the three names, a
\* name that is none of them, or no parameter.
AggregateParams == DOMAIN AggregateModels \cup {"instance", Absent}

\* The format string of the 400 message, in pieces: plain text and "%s"
\* conversions. The one in the source has no conversion.
AggregateMessage == <<"Get parameter \"aggregate\" can take only this values: ">>

\* The conversions of a format string.
Conversions(format) == {i \in DOMAIN format : format[i] = "%s"}

\* format % value for a value that is a string: the string is the single
\* argument, and the operator raises TypeError unless the format has
\* exactly one conversion for it.
Interpolate(format, value) ==
    IF Cardinality(Conversions(format)) = 1
    THEN [exc |-> "none",
          text |-> [i \in DOMAIN format |->
                      IF format[i] = "%s" THEN value ELSE format[i]]]
    ELSE [exc |-> "TypeError", text |-> <<>>]

\* The users of the usage statistics: staff, or at most one role.
UsageUsers == {u \in Users : Cardinality(RoleScopes(u)) <= 1}

\* The statistics of the aggregate objects: those of the instances of each,
\* or an empty list for an object without instances.
UsageStats(w, objects) ==
    {[name |-> o,
      datapoints |-> IF Under(w, o, "Instance") # {} THEN "stats" ELSE "empty"] :
       o \in objects}

\* UsageStatsView.get; valid says whether UsageStatsSerializer accepts the
\* other parameters, uuid is the position of the object asked for.
UsageStatsResponse(w, u, aggregate, uuid, valid) ==
    LET name == IF aggregate = Absent THEN "customer" ELSE aggregate IN
    IF name \notin DOMAIN AggregateModels
    THEN LET message == Interpolate(AggregateMessage, "customer, project_group, project")
         IN  IF message.exc = "none"
             THEN [status |-> 400, exc |-> "none", stats |-> {}]
             ELSE [status |-> 500, exc |-> message.exc, stats |-> {}]
    ELSE LET visible == FilterQuerysetForUser(w, u, AggregateModels[name],
                                              All(AggregateModels[name]))
             objects == IF uuid = 0 THEN visible
                        ELSE {o \in visible : o.id = uuid}
         IN  IF ~valid /\ \E o \in objects : Under(w, o, "Instance") # {}
             THEN [status |-> 400, exc |-> "none", stats |-> {}]
             ELSE [status |-> 200, exc |-> "none", stats |-> UsageStats(w, objects)]

IdleUsage(w, u) ==
    [pc |-> "idle", w |-> w, u |-> u, aggregate |-> Absent, uuid |-> 0,
     response |-> [status |-> 0, exc |-> "none", stats |-> {}]]

UsageInit ==
    /\ CoreAtRest
    /\ acl = NoAcl
    /\ qs = NoQuota
    /\ \E w \in Structures, u \in UsageUsers : view = IdleUsage(w, u)

\* GET of the usage statistics.
UsageStatsGet(aggregate, uuid, valid) ==
    /\ view.pc = "idle"
    /\ view' = [view EXCEPT !.pc = "answered", !.aggregate = aggregate,
                            !.uuid = uuid,
                            !.response = UsageStatsResponse(view.w, view.u, aggregate,
                                                            uuid, valid)]
    /\ UNCHANGED <<core, acl, qs>>

\* The response, or the server error, is handed to the client.
UsageStatsReturn ==
    /\ view.pc = "answered"
    /\ view' = IdleUsage(view.w, view.u)
    /\ UNCHANGED <<core, acl, qs>>

UsageNext ==
    \/ \E aggregate \in AggregateParams, uuid \in 0..NumProjects, valid \in BOOLEAN :
          UsageStatsGet(aggregate, uuid, valid)
    \/ UsageStatsReturn

UsageSpec == UsageInit /\ [][UsageNext]_vars

\* ----------------------------------------------------- instance create/update
MaxSecurityGroups == 3

SecurityGroupIds == 1..MaxSecurityGroups

\* _related_data without the key 'security_groups'.
NoSecurityGroups == [present |-> FALSE, security_groups |-> {}]

\* The _related_data of an update: the groups under 'security_groups', or
\* no such key.
RelatedData ==
    {NoSecurityGroups}
    \cup [present : {TRUE}, security_groups : SUBSET SecurityGroupIds]

MembershipStates == {"IN_SYNC", "ERRED"}

\* pre_save, update flow: self.new_security_group_ids
NewSecurityGroupIds(related_data) ==
    IF related_data.present THEN related_data.security_groups ELSE {}

\* The check at the end of pre_save: the exception it raises.
PreSaveCheck(membership) ==
    IF membership = "ERRED" THEN "IncorrectStateException" ELSE "none"

\* post_save, update flow: the links whose delete() is called.
Stale(old_security_groups, new_security_group_ids) ==
    {id \in old_security_groups : id \notin new_security_group_ids}

\* post_save creating a link for every requested group, linked or not.
MissingAllRequested(old_security_groups, new_security_group_ids) ==
    new_security_group_ids

\* post_save, update flow: the groups a link is created for.
Missing(old_security_groups, new_security_group_ids) ==
    new_security_group_ids \ old_security_groups

\* What a request left behind: the exception that ended it, the links
\* deleted and created by post_save, the tasks it enqueued.
Outcome(exc, deleted, created, tasks) ==
    [exc |-> exc, deleted |-> deleted, created |-> created, tasks |-> tasks]

NoOutcome == Outcome("none", {}, {}, <<>>)

\* PUT or PATCH of the instance: pre_save, the save, post_save.
Update(v, related_data) ==
    LET new == NewSecurityGroupIds(related_data)
        asked == [v EXCEPT !.pc = "answered", !.method = "PUT",
                           !.related_data = related_data, !.before = v.links]
    IN  IF PreSaveCheck(v.membership) # "none"
        THEN [asked EXCEPT !.outcome = Outcome(PreSaveCheck(v.membership), {}, {}, <<>>)]
        ELSE [asked EXCEPT
                !.links = (v.links \ Stale(v.links, new)) \cup Missing(v.links, new),
                !.outcome = Outcome("none", Stale(v.links, new), Missing(v.links, new),
                                    <<"push_instance_security_groups">>)]

\* POST of an instance: pre_save, the save, post_save with created=True.
CreateInstance(v) ==
    LET asked == [v EXCEPT !.pc = "answered", !.method = "POST",
                           !.related_data = NoSecurityGroups, !.before = v.links]
    IN  IF PreSaveCheck(v.membership) # "none"
        THEN [asked EXCEPT !.outcome = Outcome(PreSaveCheck(v.membership), {}, {}, <<>>)]
        ELSE [asked EXCEPT !.instance = TRUE,
                           !.outcome = Outcome("none", {}, {}, <<"schedule_provisioning">>)]

IdleUpdate(v) ==
    [v EXCEPT !.pc = "idle", !.method = "none", !.related_data = NoSecurityGroups,
              !.before = {}, !.outcome = NoOutcome]

UpdateInit ==
    /\ CoreAtRest
    /\ acl = NoAcl
    /\ qs = NoQuota
    /\ \E membership \in MembershipStates :
          view = [pc |-> "idle", instance |-> FALSE, membership |-> membership,
                  links |-> {}, method |-> "none", related_data |-> NoSecurityGroups,
                  before |-> {}, outcome |-> NoOutcome]

\* An instance is created.
InstanceCreate ==
    /\ view.pc = "idle"
    /\ ~view.instance
    /\ view' = CreateInstance(view)
    /\ UNCHANGED <<core, acl, qs>>

\* The instance is updated.
InstanceUpdate(related_data) ==
    /\ view.pc = "idle"
    /\ view.instance
    /\ view' = Update(view, related_data)
    /\ UNCHANGED <<core, acl, qs>>

\* The cloud project membership of the instance changes its state.
MembershipChange(membership) ==
    /\ view.pc = "idle"
    /\ view.membership # membership
    /\ view' = [view EXCEPT !.membership = membership]
    /\ UNCHANGED <<core, acl, qs>>

\* The response is handed to the client.
UpdateReturn ==
    /\ view.pc = "answered"
    /\ view' = IdleUpdate(view)
    /\ UNCHANGED <<core, acl, qs>>

UpdateNext ==
    \/ InstanceCreate
    \/ \E related_data \in RelatedData : InstanceUpdate(related_data)
    \/ \E membership \in MembershipStates : MembershipChange(membership)
    \/ UpdateReturn

UpdateSpec == UpdateInit /\ [][UpdateNext]_vars

\* ------------------------------------------------------------------ claims
Done(r) == req[r].pc = "done"

Failed(p) == ss[p].raised # "none"

Succeeded(p) == ss[p].pc \in {"committed", "returned"} /\ ss[p].exc = "none"

TerminalStates == {"OFFLINE", "ONLINE", "ERRED"}

LastTask == IF queue = <<>> THEN "none" ELSE queue[Len(queue)]

\* C1: set_state is all-or-nothing: a call that ends by raising
\* StateChangeError, whatever the reason, has written nothing to the
\* entity's row.
C1_AllOrNothing ==
    \A p \in Procs : Failed(p) => ~ss[p].wrote /\ ss[p].stored = "none"

\* A call that failed on its save, with an entity that differs from the row.
C1_Witness ==
    \E p \in Procs :
        /\ ss[p].raised = "StateChangeError"
        /\ ss[p].exc = "DatabaseError"
        /\ db.exists /\ ss[p].ent.state # db.state

\* C2: of two set_state calls for the same transition that overlap on one
\* row (the second loaded its entity before the first committed), only one
\* completes successfully: a call whose copy was outdated by the commit of
\* the other never succeeds.
C2_ExactlyOneSucceeds ==
    \A p \in Procs : ss[p].raced => ~Succeeded(p)

\* C3: every change of the persisted state is the commit of one set_state
\* call whose transition has the old state in its source set and the new
\* state as its target; no other write changes the persisted state.
C3_OnlyDeclaredTransitions ==
    [][(db.exists /\ db'.exists /\ db'.state # db.state) =>
          \E p \in Procs :
              /\ ss[p].pc = "loaded" /\ ss'[p].pc = "committed"
              /\ db.state \in Source(ss[p].tr)
              /\ db'.state = Target(ss[p].tr)]_vars

\* C4: a start request by an authorized user whose set_state finds the
\* instance OFFLINE (and whose save the database accepts) succeeds: STARTING
\* is persisted, exactly one start task is enqueued, the response is 202.
C4_StartFromOffline ==
    \A r \in Req :
        (Done(r) /\ req[r].op = "start" /\ ss[r].seen = "OFFLINE"
                 /\ ss[r].exc # "DatabaseError") =>
            /\ req[r].resp = 202
            /\ ss[r].stored = "STARTING"
            /\ req[r].enq = 1
            /\ LastTask = "schedule_starting"

\* An authorized start request that found OFFLINE and was answered 202.
C4_Witness ==
    \E r \in Req :
        /\ Done(r) /\ req[r].op = "start" /\ req[r].auth
        /\ ss[r].seen = "OFFLINE" /\ req[r].resp = 202
        /\ db.state = "STARTING"

\* C5: a start request whose set_state finds the instance STARTING fails
\* with StateChangeError (transition not allowed): nothing is written, no
\* task is enqueued, the response is 409.
C5_StartFromStarting ==
    \A r \in Req :
        (Done(r) /\ req[r].op = "start" /\ ss[r].seen = "STARTING") =>
            /\ ss[r].exc = "TransitionNotAllowed"
            /\ ss[r].raised = "StateChangeError"
            /\ ~ss[r].wrote /\ ss[r].stored = "none"
            /\ req[r].enq = 0
            /\ req[r].resp = 409

\* A start request that found STARTING and was answered 409.
C5_Witness ==
    \E r \in Req :
        /\ Done(r) /\ req[r].op = "start" /\ ss[r].seen = "STARTING"
        /\ db.state = "STARTING" /\ req[r].resp = 409

\* C6: a set_state call that finds no entity fails with StateChangeError;
\* its caller enqueues no task and no audit event is written.
C6_MissingEntity ==
    \A p \in Procs :
        ss[p].seen = "missing" =>
            /\ ss[p].raised = "StateChangeError"
            /\ ~ss[p].audited
            /\ ~ss[p].wrote
            /\ p \in Req => (req[p].enq = 0 /\ (Done(p) => req[p].resp = 409))

\* A request that found the instance at its lookup and not in set_state.
C6_Witness ==
    \E r \in Req :
        /\ Done(r) /\ ss[r].seen = "missing" /\ req[r].resp = 409
        /\ ~db.exists /\ Len(queue) = 0

\* C7: each failure kind of set_state (entity missing, transition not
\* allowed, database error) reaches the caller as StateChangeError and as
\* nothing else; a request answers it with 409.
C7_UnifiedError ==
    \A p \in Procs :
        ss[p].exc \in {"DoesNotExist", "TransitionNotAllowed", "DatabaseError"} =>
            /\ ss[p].raised = "StateChangeError"
            /\ (p \in Req /\ Done(p)) => req[p].resp = 409

\* A request whose set_state failed on a database error.
C7_Witness ==
    \E r \in Req :
        /\ Done(r) /\ ss[r].exc = "DatabaseError"
        /\ ss[r].raised = "StateChangeError"

\* The two other failure kinds are reached as well.
C7_WitnessMissing ==
    \E p \in Procs : ss[p].exc = "DoesNotExist" /\ ss[p].raised = "StateChangeError"

C7_WitnessNotAllowed ==
    \E p \in Procs :
        ss[p].exc = "TransitionNotAllowed" /\ ss[p].raised = "StateChangeError"

\* C8: a request whose marker transition is accepted is answered 202 and
\* has enqueued exactly one task, its own processing task, after the marker
\* state was committed; a request whose transition is rejected is answered
\* 409 and has enqueued none; no request enqueues without a commit.
C8_AcceptedEnqueuesOnce ==
    \A r \in Req :
        /\ req[r].enq > 0 => (ss[r].stored # "none" /\ ss[r].raised = "none")
        /\ (Done(r) /\ ss[r].pc = "returned" /\ ss[r].raised = "none") =>
              /\ req[r].resp = 202
              /\ req[r].enq = 1
              /\ LastTask = TaskOf(req[r].op)
        /\ (Done(r) /\ ss[r].raised = "StateChangeError") =>
              /\ req[r].resp = 409
              /\ req[r].enq = 0

\* The second request of a sequence is accepted.
C8_Witness ==
    \E r \in Req :
        /\ Done(r) /\ req[r].resp = 202 /\ req[r].enq = 1
        /\ issued = 2

\* A request whose transition was rejected.
C8_WitnessRejected ==
    \E r \in Req : Done(r) /\ req[r].resp = 409 /\ ss[r].raised = "StateChangeError"

\* C9: a resize request answered 409 because schedule_resizing was rejected
\* has not changed the persisted ram, cores or data_volume_size.
C9_NoHalfMutation ==
    \A r \in Req :
        (Done(r) /\ req[r].op \in ResizeOperations /\ req[r].resp = 409) =>
            ~req[r].mutated

\* C10: a destroy request whose set_state finds the instance in a state
\* other than OFFLINE, ONLINE or ERRED is answered 409, writes nothing and
\* enqueues no task; and the persisted state becomes DELETING only from
\* OFFLINE, ONLINE or ERRED.
C10_DestroyRejected ==
    \A r \in Req :
        (Done(r) /\ req[r].op = "destroy" /\ ss[r].seen \in States \ TerminalStates) =>
            /\ req[r].resp = 409
            /\ ~ss[r].wrote
            /\ req[r].enq = 0

\* C10, whole: the rejection above holds always, and every step that makes
\* the persisted state DELETING starts from OFFLINE, ONLINE or ERRED.
C10_DeletingOnlyFromTerminal ==
    /\ []C10_DestroyRejected
    /\ [][(db.exists /\ db'.exists /\ db.state # "DELETING" /\ db'.state = "DELETING")
             => db.state \in TerminalStates]_vars

\* C11: the audit event of a set_state call is written only when its
\* transition was applied and committed; a call that failed (entity missing,
\* transition not allowed, database error) has written no audit event.
C11_AuditOnlyOnSuccess ==
    \A p \in Procs :
        /\ ss[p].audited =>
              /\ ss[p].exc = "none" /\ ss[p].raised = "none"
              /\ ss[p].seen \in Source(ss[p].tr)
              /\ ss[p].stored = Target(ss[p].tr)
        /\ ss[p].exc # "none" => ~ss[p].audited

\* A call that committed its transition and wrote the audit event.
C11_Witness ==
    \E p \in Procs :
        /\ ss[p].pc = "returned" /\ ss[p].audited
        /\ db.exists /\ db.state = Target(ss[p].tr)

\* C12: a failed write of the audit event does not undo the transition: the
\* event is written after the commit, and when the call returns the new
\* state is the persisted one whether the event was written or lost.
C12_AuditFailureKeepsState ==
    \A p \in Procs :
        /\ ss[p].pc = "committed" =>
              db.exists /\ db.state = Target(ss[p].tr) /\ ~ss[p].audited
        /\ (ss[p].pc = "returned" /\ ss[p].exc = "none") =>
              /\ db.exists /\ db.state = Target(ss[p].tr)
              /\ ss[p].stored = db.state
              /\ ss[p].raised = "none"

\* A call whose audit event was lost, its transition persisted.
C12_Witness ==
    \E p \in Procs :
        /\ ss[p].pc = "returned" /\ ss[p].exc = "none" /\ ~ss[p].audited
        /\ ss[p].wrote /\ db.state = Target(ss[p].tr)

\* C13: set_state never retries: a call loads the entity at most once and
\* saves at most once (so applies its transition at most once), and a call
\* that met a failure has ended at once by raising StateChangeError.
C13_NeverRetries ==
    \A p \in Procs :
        /\ ss[p].loads <= 1 /\ ss[p].saves <= 1
        /\ ss[p].saves <= ss[p].loads
        /\ ss[p].exc # "none" =>
              ss[p].pc = "returned" /\ ss[p].raised = "StateChangeError"

\* A call that failed on its save after one load and one save.
C13_Witness ==
    \E p \in Procs :
        /\ ss[p].pc = "returned" /\ ss[p].exc = "DatabaseError"
        /\ ss[p].loads = 1 /\ ss[p].saves = 1

\* C14: with a fair worker, an instance that an accepted request (answered
\* 202, its task enqueued) has put into a transient state is eventually moved
\* out of it: into OFFLINE, ONLINE or ERRED, or it is deleted.
C14_TransientEventuallyLeft ==
    \A r \in Req :
        (Done(r) /\ req[r].resp = 202 /\ req[r].enq = 1
                 /\ db.exists /\ db.state \in TransientStates)
            ~> (~db.exists \/ db.state \in TerminalStates)

\* A role of user u covers entity e: u owns the customer of e, manages a
\* project group e is in, or is administrator or manager of a project e is in.
InRoleScope(w, u, e) ==
    \/ CustomerOf(w, e) \in u.owner
    \/ GroupsOf(w, e) \cap u.manager # {}
    \/ \E p \in ProjectsOf(w, e) : u.project_role[p] \in ProjectRoles

\* The entry of customer c in the statistics of a user who sees all of it.
FullEntry(w, c) ==
    [name |-> c,
     projects       |-> Cardinality({p \in All("Project") : CustomerOf(w, p) = c}),
     project_groups |-> Cardinality({g \in All("ProjectGroup") : CustomerOf(w, g) = c}),
     instances      |-> Cardinality({i \in All("Instance") : CustomerOf(w, i) = c})]

\* C15: what the permission filter lets a user see of a type is a subset of
\* all identifiers of the type; for a staff user it is all of them: a
\* queryset filtered for a staff user is unchanged, and the customer
\* statistics of a staff user list every customer with all it has.
C15_SubsetAndStaffSeesAll ==
    /\ acl.pc = "filtered" =>
          /\ acl.result \subseteq acl.queryset
          /\ VisibleIds(acl.w, acl.u, acl.type) \subseteq All(acl.type)
          /\ acl.u.is_staff =>
                /\ acl.result = acl.queryset
                /\ VisibleIds(acl.w, acl.u, acl.type) = All(acl.type)
    /\ (acl.pc = "answered" /\ acl.u.is_staff) =>
          acl.data = {FullEntry(acl.w, c) : c \in All("Customer")}

\* A staff user's statistics: every customer listed, one of them with two
\* instances.
C15_Witness ==
    /\ acl.pc = "answered" /\ acl.u.is_staff
    /\ Cardinality(acl.data) = NumCustomers
    /\ \E row \in acl.data : row.instances = 2 /\ row.project_groups = 1

\* C16: an entity under a scope where the user holds a role is in the
\* result of filtering for the user: the projects, project groups and
\* instances of an owned customer, the projects (and their instances) of a
\* managed project group, the instances of an administered or managed
\* project; the owner of a customer gets its statistics in full.
C16_RoleScopeIncluded ==
    /\ acl.pc = "filtered" =>
          \A e \in acl.queryset :
              InRoleScope(acl.w, acl.u, e) => e \in acl.result
    /\ acl.pc = "answered" =>
          \A c \in acl.u.owner : FullEntry(acl.w, c) \in acl.data

\* A group manager without other roles filters the instances and gets one.
C16_Witness ==
    /\ acl.pc = "filtered" /\ acl.type = "Instance"
    /\ acl.u.manager # {} /\ acl.u.owner = {}
    /\ \A p \in All("Project") : acl.u.project_role[p] = "none"
    /\ acl.result # {} /\ acl.result # acl.queryset

ConnectedTo(w, u, c) ==
    \/ c \in u.owner
    \/ \E g \in u.manager : CustomerOf(w, g) = c
    \/ \E p \in All("Project") :
          u.project_role[p] \in ProjectRoles /\ CustomerOf(w, p) = c

\* The entities of a type that belong to customer c and are covered by a
\* role of the user.
ScopedUnder(w, u, c, type) ==
    {e \in All(type) : CustomerOf(w, e) = c /\ InRoleScope(w, u, e)}

C19_EmptyIsNotAnError ==
    /\ (acl.pc = "filtered" /\ VisibleIds(acl.w, acl.u, acl.type) = {}) =>
          acl.result = {}
    /\ acl.pc = "answered" =>
          /\ acl.status = 200
          /\ VisibleIds(acl.w, acl.u, "Customer") = {} => acl.data = {}
          /\ \A row \in acl.data :
                /\ VisibleIds(acl.w, acl.u, "ProjectGroup") = {} => row.project_groups = 0
                /\ VisibleIds(acl.w, acl.u, "Instance") = {} => row.instances = 0

\* A user without any role asks for the statistics: 200, no entry.
C19_Witness ==
    /\ acl.pc = "answered" /\ ~acl.u.is_staff
    /\ RoleScopes(acl.u) = {}
    /\ acl.status = 200 /\ acl.data = {}

\* A project administrator's statistics: the customer with no project group.
C19_WitnessZero ==
    /\ acl.pc = "answered" /\ ~acl.u.is_staff
    /\ \E row \in acl.data : row.project_groups = 0 /\ row.projects = 1

\* The amount of a field in a relation: the row's, nothing without a row.
AmountOf(relation, field) ==
    IF relation = {} THEN 0 ELSE (CHOOSE row \in relation : TRUE)[field]

\* The sum of a field over the first n memberships' quota rows.
RECURSIVE QuotaSum(_, _, _)
QuotaSum(memberships, n, field) ==
    IF n = 0
    THEN 0
    ELSE QuotaSum(memberships, n - 1, field)
         + AmountOf(memberships[n].resource_quota, field)

\* The sum of a field over the first n memberships' usage rows.
RECURSIVE UsageSum(_, _, _)
UsageSum(memberships, n, field) ==
    IF n = 0
    THEN 0
    ELSE UsageSum(memberships, n - 1, field)
         + AmountOf(memberships[n].resource_quota_usage, field)

\* C20: get_sum_of_quotas returns, for each field, the sum of the field over
\* the memberships that have a ResourceQuota row and, under field_usage, the
\* sum over the memberships that have a ResourceQuotaUsage row; a membership
\* without a row adds nothing and the call returns all the same.
C20_SumOverExistingRows ==
    /\ qs.pc \in {"loop", "returned"} =>
          \A f \in FieldSet :
              /\ Lookup(qs.sums, Key(f, "")) = QuotaSum(qs.memberships, qs.i, f)
              /\ Lookup(qs.sums, Key(f, "_usage")) = UsageSum(qs.memberships, qs.i, f)
    /\ qs.pc = "returned" =>
          /\ qs.i = Len(qs.memberships)
          /\ qs.status = 200

\* Two memberships, the first with usage and no quota, the second with a
\* quota: the sums hold the second's quota and the first's usage.
C20_Witness ==
    /\ qs.pc = "returned" /\ Len(qs.memberships) = 2
    /\ qs.memberships[1].resource_quota = {}
    /\ qs.memberships[1].resource_quota_usage = {QuotaRow(1)}
    /\ qs.memberships[2].resource_quota = {QuotaRow(1)}
    /\ qs.memberships[2].resource_quota_usage = {}
    /\ Lookup(qs.sums, Key("ram", "")) = 2
    /\ Lookup(qs.sums, Key("ram", "_usage")) = 2

\* C22: the processing function of a tracked_processing task runs only
\* after set_state(processing_state) returned; when that call raised
\* StateChangeError the function is not run and no other transition is
\* attempted.
C22_ProcessingAfterMarking ==
    /\ wk.ran => (wk.first = "none" /\ wk.calls[1] = ProcessingState(wk.task))
    /\ wk.first = "StateChangeError" =>
          /\ ~wk.ran
          /\ wk.calls = <<ProcessingState(wk.task)>>
          /\ wk.pc = "done"
    /\ wk.pc \in {"processing", "finishing"} => wk.first = "none"

\* A task whose first set_state failed: it has ended, nothing else was called.
C22_Witness ==
    /\ wk.pc = "done" /\ wk.first = "StateChangeError" /\ ~wk.ran
    /\ Len(wk.calls) = 1

\* C23: once the processing function has run, exactly one more transition
\* is attempted: the error state when the function raised, the desired
\* state when it returned.
C23_OneFinalTransition ==
    /\ wk.ran =>
          /\ Len(wk.calls) = 2
          /\ wk.calls[2] = (IF wk.failed THEN ErrorState ELSE DesiredState(wk.task))
          /\ wk.pc \in {"finishing", "done"}
          /\ ss[Worker].tr = wk.calls[2]
    /\ (wk.pc # "idle" /\ ~wk.ran) => Len(wk.calls) = 1

\* A task whose processing function raised and whose set_erred was committed.
C23_Witness ==
    /\ wk.pc = "done" /\ wk.ran /\ wk.failed
    /\ wk.calls[2] = "set_erred"
    /\ db.exists /\ db.state = "ERRED"

\* C24: a tracked_processing task never passes a failure on to its caller:
\* an exception of the processing function and a StateChangeError of any of
\* its set_state calls are absorbed, the wrapper returns normally.
C24_NothingPropagates ==
    /\ wk.propagated = "none"
    /\ (wk.pc = "done" /\ ss[Worker].raised = "StateChangeError") =>
          wk.propagated = "none"

\* A task that ended on the StateChangeError of its final set_state, after
\* its processing function had raised.
C24_Witness ==
    /\ wk.pc = "done" /\ wk.ran /\ wk.failed
    /\ ss[Worker].raised = "StateChangeError"
    /\ wk.calls[2] = ErrorState

\* C25: a start, stop, destroy or resize request of a user who is neither
\* staff nor administrator of the project is refused before set_state is
\* called: no step of such a request changes the persisted state, the
\* request never enters set_state and enqueues no task.
C25_RefusedBeforeAnyWrite ==
    [][\A r \in Req :
         (~req[r].auth /\ req[r].pc # "idle") =>
            /\ req'[r].pc # "set_state"
            /\ req'[r].enq = 0
            /\ (req'[r].pc # req[r].pc /\ db.exists) => db'.state = db.state]_vars

\* C26: resize rejects an invalid request without any mutation: an instance
\* that is not OFFLINE gets 409, a disk size not strictly greater than the
\* current one gets 400, a flavor of another cloud gets 400; the handler
\* then ends at once, having written nothing, called no set_state and
\* enqueued no task.
C26_ResizeRejectsWithoutMutation ==
    [][\A r \in Req :
         (req[r].pc = "idle" /\ req'[r].pc # "idle" /\ db.exists
            /\ req'[r].op \in ResizeOperations \cup {"resize"}) =>
         LET Rejected(code) ==
               /\ req'[r].pc = "done" /\ req'[r].resp = code
               /\ ~req'[r].mutated /\ req'[r].enq = 0
               /\ db' = db /\ queue' = queue /\ ss'[r].pc = "idle"
         IN  IF db.state # "OFFLINE"
             THEN Rejected(409)
             ELSE \A valid \in BOOLEAN, data \in ResizeData :
                    (/\ Resize(r, valid, data, req'[r].auth)
                     /\ \/ ~valid
                        \/ /\ data.flavor # None
                           /\ FlavorNamed(data.flavor).cloud # InstanceCloud
                        \/ /\ data.flavor = None
                           /\ data.disk_size <= db.disk)
                    => Rejected(400)]_vars

\* A resize to a size that is not larger was answered 400 and the instance
\* is as it was: OFFLINE, nothing queued for it by that request.
C26_Witness ==
    \E r \in Req :
        /\ req[r].pc = "done" /\ req[r].op = "disk extension"
        /\ req[r].resp = 400 /\ ~req[r].mutated /\ req[r].enq = 0
        /\ db.exists /\ db.state = "OFFLINE"

\* C21: the resource statistics endpoint answers 403 to every requester who
\* is not staff, whatever the parameters; to staff it answers 400 when
\* auth_url is absent and 400 when no cloud has that auth_url; in these
\* cases get_resource_stats of the cloud backend is never called.
C21_StaffCheckFirst ==
    view.pc = "answered" =>
        /\ ~view.is_staff =>
              (view.response.status = 403 /\ view.response.queried = <<>>)
        /\ (view.is_staff /\ view.auth_url = Absent) =>
              (view.response.status = 400 /\ view.response.queried = <<>>)
        /\ (view.is_staff /\ view.auth_url # Absent
               /\ \A c \in CloudIds : view.clouds[c] # view.auth_url) =>
              (view.response.status = 400 /\ view.response.queried = <<>>)
        /\ view.response.queried # <<>> =>
              (view.is_staff /\ view.response.status = 200)

\* A requester who is not staff and sent no auth_url was answered 403, with
\* a cloud in the table.
C21_Witness ==
    /\ view.pc = "answered" /\ ~view.is_staff /\ view.auth_url = Absent
    /\ view.response.status = 403
    /\ \E c \in CloudIds : view.clouds[c] # Absent

\* Staff asking for an auth_url that no cloud has were answered 400.
C21_WitnessNoCloud ==
    /\ view.pc = "answered" /\ view.is_staff /\ view.auth_url = RandomUrl
    /\ view.response.status = 400 /\ view.response.queried = <<>>

\* The requester of the grant being answered may save permissions of the
\* project: staff, manager of the project, owner of its customer or manager
\* of a project group that contains it.
MayGrant(a) ==
    \/ view.user = "staff"
    \/ [user |-> view.user, project |-> a.project, role |-> "MANAGER"] \in view.before
    \/ view.w.customer_of_project[a.project] \in view.owner
    \/ view.w.project_groups[a.project] \cap view.manager # {}

\* C28: granting a project role is idempotent: a grant of an assignment
\* that does not exist answers 201 and adds exactly that assignment; a grant
\* of one that exists answers 304 and leaves the assignments as they were;
\* a grant by a requester who is not staff, manager of the project, owner of
\* its customer or manager of one of its groups is refused and changes
\* nothing.
C28_GrantIdempotent ==
    view.pc = "answered" =>
        \A a \in view.asked :
            /\ view.status = 201 =>
                  (a \notin view.before /\ view.permissions = view.before \cup {a})
            /\ view.status = 304 =>
                  (a \in view.before /\ view.permissions = view.before)
            /\ view.status \in {201, 304} => MayGrant(a)
            /\ (view.status # 400 /\ ~MayGrant(a)) =>
                  (view.status = 403 /\ view.permissions = view.before)
            /\ (view.status # 400 /\ MayGrant(a)) =>
                  view.status = (IF a \in view.before THEN 304 ELSE 201)

\* The user, made manager of a project by an earlier grant, repeats a grant
\* that exists already and is answered 304.
C28_Witness ==
    /\ view.pc = "answered" /\ view.user = "user" /\ view.status = 304
    /\ view.owner = {} /\ view.manager = {}
    /\ view.permissions = view.before
    /\ \E a \in view.asked : a.user = "staff" /\ a \in view.before

\* An administrator of the project, who is not its manager, is refused.
C28_WitnessRefused ==
    /\ view.pc = "answered" /\ view.user = "user" /\ view.status = 403
    /\ \E a \in view.asked :
          [user |-> "user", project |-> a.project, role |-> "ADMINISTRATOR"]
              \in view.permissions

\* C30: a usage statistics request whose 'aggregate' is none of customer,
\* project_group and project is answered 400, and no statistics are computed.
C30_InvalidAggregateIsBadRequest ==
    (view.pc = "answered" /\ view.aggregate # Absent
        /\ view.aggregate \notin DOMAIN AggregateModels) =>
        (view.response.status = 400 /\ view.response.stats = {})

\* What one pass of the loop added to the sum under a key.
Added(field, suffix) ==
    Lookup(qs'.sums, Key(field, suffix)) - Lookup(qs.sums, Key(field, suffix))

\* C29: for every membership the quota part and the usage part of
\* get_sum_of_quotas are independent and each is applied whole or not at
\* all: a pass of the loop adds every field of the quota row when there is
\* one and nothing to any quota sum when there is none, and likewise, and
\* whatever the quota part did, for the usage row and the usage sums.
C29_PartsWholeAndIndependent ==
    [][(qs.pc = "loop" /\ qs'.pc = "loop" /\ qs'.i = qs.i + 1) =>
         LET membership == qs.memberships[qs'.i] IN
         /\ membership.resource_quota # {} =>
               \A f \in FieldSet :
                  /\ Added(f, "") = AmountOf(membership.resource_quota, f)
                  /\ Key(f, "") \in DOMAIN qs'.sums
         /\ membership.resource_quota = {} =>
               \A f \in FieldSet : Added(f, "") = 0
         /\ membership.resource_quota_usage # {} =>
               \A f \in FieldSet :
                  /\ Added(f, "_usage") = AmountOf(membership.resource_quota_usage, f)
                  /\ Key(f, "_usage") \in DOMAIN qs'.sums
         /\ membership.resource_quota_usage = {} =>
               \A f \in FieldSet : Added(f, "_usage") = 0]_vars

\* The first membership has a quota row and no usage row: after its pass
\* every quota sum holds the row's field and every usage sum is 0.
C29_Witness ==
    /\ qs.pc = "loop" /\ qs.i = 1
    /\ qs.memberships[1].resource_quota = {QuotaRow(1)}
    /\ qs.memberships[1].resource_quota_usage = {}
    /\ \A f \in FieldSet :
          /\ Lookup(qs.sums, Key(f, "")) = QuotaRow(1)[f]
          /\ Lookup(qs.sums, Key(f, "_usage")) = 0

\* The groups asked for by the update being answered.
Requested == view.related_data.security_groups

\* C27: after an update of the instance the linked security groups are
\* exactly the requested ones: the links not requested were deleted, the
\* missing ones created, the links that were requested already neither
\* deleted nor created again, and exactly one push_instance_security_groups
\* task was enqueued; after a creation exactly one provisioning task was
\* enqueued and no link was deleted or created and no push enqueued.
C27_LinksFollowRequest ==
    (view.pc = "answered" /\ view.outcome.exc = "none") =>
        /\ view.method = "PUT" =>
              /\ view.links = Requested
              /\ view.outcome.deleted = view.before \ Requested
              /\ view.outcome.created = Requested \ view.before
              /\ (view.before \cap Requested)
                    \cap (view.outcome.deleted \cup view.outcome.created) = {}
              /\ view.outcome.tasks = <<"push_instance_security_groups">>
        /\ view.method = "POST" =>
              /\ view.outcome.tasks = <<"schedule_provisioning">>
              /\ view.outcome.deleted = {} /\ view.outcome.created = {}
              /\ view.links = view.before

\* An update that kept one link, deleted one and created one.
C27_Witness ==
    /\ view.pc = "answered" /\ view.method = "PUT" /\ view.outcome.exc = "none"
    /\ view.before = {1, 2} /\ view.related_data.security_groups = {2, 3}
    /\ view.links = {2, 3}
    /\ view.outcome.deleted = {1} /\ view.outcome.created = {3}

\* An instance was created: one provisioning task.
C27_WitnessCreated ==
    /\ view.pc = "answered" /\ view.method = "POST" /\ view.instance
    /\ view.outcome.tasks = <<"schedule_provisioning">>

====
